---------------------------- MODULE Spec2Model ----------------------------
(***************************************************************************)
(* Site configuration module (src/consts.ts) and the article collection    *)
(* (src/content/blog/.../index.mdx) of the astro-erudite blog.             *)
(*                                                                         *)
(* Strings are sequences of one-character strings, so that a literal is    *)
(* scanned, and a URL is parsed, by what its characters are.               *)
(***************************************************************************)
EXTENDS Integers, Sequences, FiniteSets, TLC

VARIABLES
  pc,            \* position of the evaluation of the module body of consts.ts
  SITE,          \* binding of `export const SITE`        (TDZ until evaluated)
  NAV_LINKS,     \* binding of `export const NAV_LINKS`   (TDZ until evaluated)
  SOCIAL_LINKS,  \* binding of `export const SOCIAL_LINKS`(TDZ until evaluated)
  diagnostics,   \* names of the literals of consts.ts that do not scan
  status,        \* consumer -> "idle" | "bound" | "error"  (its import of consts)
  obs,           \* consumer -> export name -> the first and the latest value read
  posts,         \* the content collection: entries loaded from article documents
  pages,         \* the pages the renderer built from the collection
  rendered       \* whether the renderer has built the pages

vars == <<pc, SITE, NAV_LINKS, SOCIAL_LINKS, diagnostics, status, obs, posts, pages, rendered>>

(***************************************************************************)
(* Bounds of the model.                                                    *)
(***************************************************************************)
NumReaders == 2
MaxArticles == 7
NumDates == 2

Readers == 1..NumReaders
Exports == {"SITE", "NAV_LINKS", "SOCIAL_LINKS"}

(***************************************************************************)
(* Characters.                                                             *)
(***************************************************************************)
Quote == "'"
Lower == {"a","b","c","d","e","f","g","h","i","j","k","l","m",
          "n","o","p","q","r","s","t","u","v","w","x","y","z"}
Upper == {"A","B","C","D","E","F","G","H","I","J","K","L","M",
          "N","O","P","Q","R","S","T","U","V","W","X","Y","Z"}
Digit == {"0","1","2","3","4","5","6","7","8","9"}
Alpha == Lower \cup Upper

(***************************************************************************)
(* The source text of the string literals of SITE, each from its opening   *)
(* quote to the end of its line.                                           *)
(***************************************************************************)
\* consts.ts:16   TITLE: 'strf0x's blog,
TITLE_text ==
  <<"'","s","t","r","f","0","x","'","s"," ","b","l","o","g",",">>
\* consts.ts:18   'blog on my cyber to ai journey',
DESCRIPTION_text ==
  <<"'","b","l","o","g"," ","o","n"," ","m","y"," ","c","y","b","e","r"," ","t","o"," ","a","i"," ","j","o","u","r","n","e","y","'",",">>
\* a contact address that differs from the Email link's in one character
EMAIL_text_otherAddress ==
  <<"'","s","t","r","_","f","0","x","@","p","r","o","t","o","n","m","a","i","l",".","c","o","m","'",",">>
\* consts.ts:19   EMAIL: 'str.f0x@protonmail.com',
EMAIL_text ==
  <<"'","s","t","r",".","f","0","x","@","p","r","o","t","o","n","m","a","i","l",".","c","o","m","'",",">>
\* a SITEURL with no scheme and no host
SITEURL_text_noHost ==
  <<"'","/","b","l","o","g","/","'",",">>
\* consts.ts:22   SITEURL: 'https://voluble-figolla-716fdd.netlify.app/blog/',
SITEURL_text ==
  <<"'","h","t","t","p","s",":","/","/","v","o","l","u","b","l","e","-","f","i","g","o","l","l","a","-","7","1","6","f","d","d",".","n","e","t","l","i","f","y",".","a","p","p","/","b","l","o","g","/","'",",">>

\* a homepage count of zero
NUM_POSTS_ON_HOMEPAGE_zero == 2 - 2
\* consts.ts:20   NUM_POSTS_ON_HOMEPAGE: 2,
NUM_POSTS_ON_HOMEPAGE_literal == 2
\* a page size that is one too few
POSTS_PER_PAGE_offByOne == 3 - 1
\* consts.ts:21   POSTS_PER_PAGE: 3,
POSTS_PER_PAGE_literal == 3

(***************************************************************************)
(* Scanning a single-quoted string literal.  The token runs from the       *)
(* opening quote to the next quote that no backslash escapes; `rest` is    *)
(* what follows the token on the line.  A text with no closing quote is    *)
(* an unterminated literal.                                                *)
(***************************************************************************)
ClosingQuotes(text) ==
  {j \in 2..Len(text) : text[j] = Quote /\ text[j-1] # "\\"}

ScanString(text) ==
  IF Len(text) = 0 \/ text[1] # Quote \/ ClosingQuotes(text) = {}
  THEN [terminated |-> FALSE, value |-> <<>>, rest |-> text]
  ELSE LET j == CHOOSE k \in ClosingQuotes(text) :
                  \A m \in ClosingQuotes(text) : k <= m
       IN [terminated |-> TRUE,
           value |-> SubSeq(text, 2, j - 1),
           rest |-> SubSeq(text, j + 1, Len(text))]

\* The literal is well formed when the token is terminated and only the
\* separator that the surrounding object literal requires follows it.
WellFormedLiteral(text, separator) ==
  /\ ScanString(text).terminated
  /\ ScanString(text).rest = separator

Comma == <<",">>
CloseEntry == <<" ", "}", ",">>

\* The string fields of SITE with the text of their initialisers.
SiteStringFields ==
  [TITLE |-> TITLE_text, DESCRIPTION |-> DESCRIPTION_text,
   EMAIL |-> EMAIL_text, SITEURL |-> SITEURL_text]

\* The literals of the SITE initialiser that do not scan as `'...',`.
SiteDiagnostics ==
  {f \in DOMAIN SiteStringFields : ~WellFormedLiteral(SiteStringFields[f], Comma)}

\* consts.ts:15-23: the value of the SITE object literal, field by field.
SiteLiteral ==
  [TITLE |-> ScanString(TITLE_text).value,
   DESCRIPTION |-> ScanString(DESCRIPTION_text).value,
   EMAIL |-> ScanString(EMAIL_text).value,
   NUM_POSTS_ON_HOMEPAGE |-> NUM_POSTS_ON_HOMEPAGE_literal,
   POSTS_PER_PAGE |-> POSTS_PER_PAGE_literal,
   SITEURL |-> ScanString(SITEURL_text).value]

(***************************************************************************)
(* The Link entries, each from the texts of its two literals: the href     *)
(* literal is followed by `,` and the label literal by ` },`.              *)
(***************************************************************************)
LinkEntry(hrefText, labelText) ==
  [href |-> ScanString(hrefText).value, label |-> ScanString(labelText).value]

LinkWellFormed(hrefText, labelText) ==
  WellFormedLiteral(hrefText, Comma) /\ WellFormedLiteral(labelText, CloseEntry)

\* the texts of NAV_LINKS with the label of its first entry empty
NavLinksText_emptyLabel ==
  << <<  <<"'","/","b","l","o","g","'",",">>,
         <<"'","'"," ","}",",">> >>,
     <<  <<"'","/","a","u","t","h","o","r","s","'",",">>,
         <<"'","a","u","t","h","o","r","s","'"," ","}",",">> >>,
     <<  <<"'","/","a","b","o","u","t","'",",">>,
         <<"'","a","b","o","u","t","'"," ","}",",">> >>,
     <<  <<"'","/","t","a","g","s","'",",">>,
         <<"'","t","a","g","s","'"," ","}",",">> >> >>

\* consts.ts:26-29
NavLinksText ==
  << <<  <<"'","/","b","l","o","g","'",",">>,
         <<"'","b","l","o","g","'"," ","}",",">> >>,
     <<  <<"'","/","a","u","t","h","o","r","s","'",",">>,
         <<"'","a","u","t","h","o","r","s","'"," ","}",",">> >>,
     <<  <<"'","/","a","b","o","u","t","'",",">>,
         <<"'","a","b","o","u","t","'"," ","}",",">> >>,
     <<  <<"'","/","t","a","g","s","'",",">>,
         <<"'","t","a","g","s","'"," ","}",",">> >> >>

\* the texts of SOCIAL_LINKS with a third entry that is neither a path, a URL
\* nor an address
SocialLinksText_badTarget ==
  << <<  <<"'","h","t","t","p","s",":","/","/","g","i","t","h","u","b",".","c","o","m","/","s","t","r","f","0","x","1","'",",">>,
         <<"'","G","i","t","H","u","b","'"," ","}",",">> >>,
     <<  <<"'","h","t","t","p","s",":","/","/","t","w","i","t","t","e","r",".","c","o","m","/","s","t","r","f","0","x","1","'",",">>,
         <<"'","T","w","i","t","t","e","r","'"," ","}",",">> >>,
     <<  <<"'","s","t","r",".","f","0","x","'",",">>,
         <<"'","E","m","a","i","l","'"," ","}",",">> >>,
     <<  <<"'","/","r","s","s",".","x","m","l","'",",">>,
         <<"'","R","S","S","'"," ","}",",">> >> >>

\* consts.ts:33-36
SocialLinksText ==
  << <<  <<"'","h","t","t","p","s",":","/","/","g","i","t","h","u","b",".","c","o","m","/","s","t","r","f","0","x","1","'",",">>,
         <<"'","G","i","t","H","u","b","'"," ","}",",">> >>,
     <<  <<"'","h","t","t","p","s",":","/","/","t","w","i","t","t","e","r",".","c","o","m","/","s","t","r","f","0","x","1","'",",">>,
         <<"'","T","w","i","t","t","e","r","'"," ","}",",">> >>,
     <<  <<"'","s","t","r",".","f","0","x","@","p","r","o","t","o","n","m","a","i","l",".","c","o","m","'",",">>,
         <<"'","E","m","a","i","l","'"," ","}",",">> >>,
     <<  <<"'","/","r","s","s",".","x","m","l","'",",">>,
         <<"'","R","S","S","'"," ","}",",">> >> >>

\* the entries of an array literal in reverse order
LinksLiteral_reversed(texts) ==
  [i \in 1..Len(texts) |->
     LinkEntry(texts[Len(texts) + 1 - i][1], texts[Len(texts) + 1 - i][2])]
\* The value of an array literal of Link entries, in source order.
LinksLiteral(texts) ==
  [i \in 1..Len(texts) |-> LinkEntry(texts[i][1], texts[i][2])]

LinksDiagnostics(name, texts) ==
  IF \A i \in 1..Len(texts) : LinkWellFormed(texts[i][1], texts[i][2])
  THEN {} ELSE {name}

\* consts.ts:25-30
NavLinksLiteral == LinksLiteral(NavLinksText)
\* consts.ts:32-37
SocialLinksLiteral == LinksLiteral(SocialLinksText)

\* Every literal of the module that does not scan.
SourceDiagnostics ==
  SiteDiagnostics \cup LinksDiagnostics("NAV_LINKS", NavLinksText)
                  \cup LinksDiagnostics("SOCIAL_LINKS", SocialLinksText)


(***************************************************************************)
(* Evaluation of the module.  A `const` binding is in its temporal dead    *)
(* zone (TDZ) until its declaration has been evaluated; the declarations   *)
(* are evaluated in source order.                                          *)
(***************************************************************************)
TDZ == <<>>
Initialized(v) == <<v>>

Binding(e) ==
  CASE e = "SITE" -> SITE
    [] e = "NAV_LINKS" -> NAV_LINKS
    [] e = "SOCIAL_LINKS" -> SOCIAL_LINKS

\* the module counts as evaluated as soon as its first declaration is
ModuleEvaluated_partial == pc \in {"evalNav", "evalSocial", "ready"}
\* An importer runs once the whole module body (consts.ts:15-37) has been
\* evaluated.
ModuleEvaluated == pc = "ready"

\* A toolchain that parses strictly rejects a module with a literal that does
\* not scan: no declaration is evaluated and every import of it fails.
Reject ==
  /\ pc = "start"
  /\ SourceDiagnostics # {}
  /\ pc' = "rejected"
  /\ diagnostics' = SourceDiagnostics
  /\ UNCHANGED <<SITE, NAV_LINKS, SOCIAL_LINKS, status, obs, posts, pages, rendered>>

\* the first declaration publishes the module as evaluated
EvalSITE_publishEarly ==
  /\ pc = "start"
  /\ SITE' = Initialized(SiteLiteral)
  /\ diagnostics' = diagnostics \cup SiteDiagnostics
  /\ pc' = "ready"
  /\ UNCHANGED <<NAV_LINKS, SOCIAL_LINKS, status, obs, posts, pages, rendered>>
\* consts.ts:15-23.  A toolchain that recovers from a literal that does not scan
\* reports it and binds the field to the token it scanned.
EvalSITE ==
  /\ pc = "start"
  /\ SITE' = Initialized(SiteLiteral)
  /\ diagnostics' = diagnostics \cup SiteDiagnostics
  /\ pc' = "evalNav"
  /\ UNCHANGED <<NAV_LINKS, SOCIAL_LINKS, status, obs, posts, pages, rendered>>

\* the second declaration also writes a field of SITE
EvalNAV_LINKS_writesSITE ==
  /\ pc = "evalNav"
  /\ NAV_LINKS' = Initialized(NavLinksLiteral)
  /\ SITE' = Initialized([SITE[1] EXCEPT !.POSTS_PER_PAGE = Len(NavLinksLiteral)])
  /\ diagnostics' = diagnostics \cup LinksDiagnostics("NAV_LINKS", NavLinksText)
  /\ pc' = "evalSocial"
  /\ UNCHANGED <<SOCIAL_LINKS, status, obs, posts, pages, rendered>>
\* consts.ts:25-30
EvalNAV_LINKS ==
  /\ pc = "evalNav"
  /\ NAV_LINKS' = Initialized(NavLinksLiteral)
  /\ diagnostics' = diagnostics \cup LinksDiagnostics("NAV_LINKS", NavLinksText)
  /\ pc' = "evalSocial"
  /\ UNCHANGED <<SITE, SOCIAL_LINKS, status, obs, posts, pages, rendered>>

\* consts.ts:32-37
EvalSOCIAL_LINKS ==
  /\ pc = "evalSocial"
  /\ SOCIAL_LINKS' = Initialized(SocialLinksLiteral)
  /\ diagnostics' = diagnostics \cup LinksDiagnostics("SOCIAL_LINKS", SocialLinksText)
  /\ pc' = "ready"
  /\ UNCHANGED <<SITE, NAV_LINKS, status, obs, posts, pages, rendered>>

(***************************************************************************)
(* Consumers (the external rendering layer).  A consumer imports the       *)
(* module and then reads its exports, any number of times, in any order.   *)
(***************************************************************************)
ImportOk(r) ==
  /\ status[r] = "idle"
  /\ ModuleEvaluated
  /\ status' = [status EXCEPT ![r] = "bound"]
  /\ UNCHANGED <<pc, SITE, NAV_LINKS, SOCIAL_LINKS, diagnostics, obs, posts, pages, rendered>>

ImportFails(r) ==
  /\ status[r] = "idle"
  /\ pc = "rejected"
  /\ status' = [status EXCEPT ![r] = "error"]
  /\ UNCHANGED <<pc, SITE, NAV_LINKS, SOCIAL_LINKS, diagnostics, obs, posts, pages, rendered>>

\* What a consumer keeps of its reads of one export: the first value it read
\* and the latest.
Observe(seen, v) == IF seen = <<>> THEN <<v>> ELSE <<seen[1], v>>

Read(r, e) ==
  /\ status[r] = "bound"
  /\ obs' = [obs EXCEPT ![r][e] = Observe(@, Binding(e))]
  /\ UNCHANGED <<pc, SITE, NAV_LINKS, SOCIAL_LINKS, diagnostics, status, posts, pages, rendered>>

Init ==
  /\ pc = "start"
  /\ SITE = TDZ
  /\ NAV_LINKS = TDZ
  /\ SOCIAL_LINKS = TDZ
  /\ diagnostics = {}
  /\ status = [r \in Readers |-> "idle"]
  /\ obs = [r \in Readers |-> [e \in Exports |-> <<>>]]
  /\ posts = <<>>
  /\ pages = <<>>
  /\ rendered = FALSE

Next ==
  \/ Reject
  \/ EvalSITE
  \/ EvalNAV_LINKS
  \/ EvalSOCIAL_LINKS
  \/ \E r \in Readers : ImportOk(r)
  \/ \E r \in Readers : ImportFails(r)
  \/ \E r \in Readers, e \in Exports : Read(r, e)

Spec == Init /\ [][Next]_vars

(***************************************************************************)
(* Link targets.  An absolute URL is scheme ":" "//" host [path]; a         *)
(* relative path is rooted at "/" (and is not "//host") or starts with     *)
(* "./" or "../"; an e-mail address is local "@" domain.                   *)
(***************************************************************************)
SchemeChars == Alpha \cup Digit \cup {"+", "-", "."}
HostChars == Alpha \cup Digit \cup {"-", "."}

IndexOf(s, c, from) ==
  LET at == {i \in from..Len(s) : s[i] = c}
  IN IF at = {} THEN 0 ELSE CHOOSE i \in at : \A j \in at : i <= j

StartsWith(s, prefix) ==
  Len(s) >= Len(prefix) /\ SubSeq(s, 1, Len(prefix)) = prefix

\* [scheme, host, path] of s, each empty where s has none.
ParseUrl(s) ==
  LET k == IndexOf(s, ":", 1)
      hasScheme == /\ k > 1
                   /\ s[1] \in Alpha
                   /\ \A i \in 2..(k - 1) : s[i] \in SchemeChars
      afterScheme == IF hasScheme THEN SubSeq(s, k + 1, Len(s)) ELSE s
      hasAuthority == hasScheme /\ StartsWith(afterScheme, <<"/", "/">>)
      slash == IF hasAuthority THEN IndexOf(afterScheme, "/", 3) ELSE 0
      hostEnd == IF slash = 0 THEN Len(afterScheme) ELSE slash - 1
  IN [scheme |-> IF hasScheme THEN SubSeq(s, 1, k - 1) ELSE <<>>,
      host |-> IF hasAuthority THEN SubSeq(afterScheme, 3, hostEnd) ELSE <<>>,
      path |-> IF hasAuthority
               THEN SubSeq(afterScheme, hostEnd + 1, Len(afterScheme))
               ELSE afterScheme]

IsAbsoluteUrl(s) ==
  LET u == ParseUrl(s)
  IN /\ u.scheme # <<>>
     /\ u.host # <<>>
     /\ \A i \in 1..Len(u.host) : u.host[i] \in HostChars
     /\ u.path = <<>> \/ u.path[1] = "/"

IsRelativePath(s) ==
  /\ ParseUrl(s).scheme = <<>>
  /\ \/ StartsWith(s, <<"/">>) /\ ~StartsWith(s, <<"/", "/">>)
     \/ StartsWith(s, <<".", "/">>)
     \/ StartsWith(s, <<".", ".", "/">>)

IsEmailAddress(s) ==
  LET a == IndexOf(s, "@", 1)
      domain == SubSeq(s, a + 1, Len(s))
      dot == IndexOf(domain, ".", 1)
  IN /\ a > 1
     /\ IndexOf(s, "@", a + 1) = 0
     /\ IndexOf(s, "/", 1) = 0
     /\ IndexOf(s, ":", 1) = 0
     /\ dot > 1 /\ dot < Len(domain)
     /\ \A i \in 1..Len(domain) : domain[i] \in HostChars

\* The Link entries of the menus that have been evaluated.
MenuEntries(menu) == IF menu = TDZ THEN {} ELSE {menu[1][i] : i \in 1..Len(menu[1])}
AllEntries == MenuEntries(NAV_LINKS) \cup MenuEntries(SOCIAL_LINKS)

String(v) == /\ DOMAIN v = 1..Len(v)
             /\ \A i \in 1..Len(v) : v[i] \in STRING
EmailLabel == <<"E", "m", "a", "i", "l">>
SiteFields ==
  {"TITLE", "DESCRIPTION", "EMAIL", "NUM_POSTS_ON_HOMEPAGE", "POSTS_PER_PAGE", "SITEURL"}
SomeRead(e) == \E r \in Readers : obs[r][e] # <<>>

(***************************************************************************)
(* Claims about the configuration module.                                  *)
(***************************************************************************)

\* C1: whenever SITE is bound, and in every value of SITE a consumer has read,
\* NUM_POSTS_ON_HOMEPAGE and POSTS_PER_PAGE are integers >= 1.
C1_PageCountsPositive ==
  LET Positive(site) == /\ site.NUM_POSTS_ON_HOMEPAGE \in Nat \ {0}
                        /\ site.POSTS_PER_PAGE \in Nat \ {0}
  IN /\ SITE # TDZ => Positive(SITE[1])
     /\ \A r \in Readers : \A i \in DOMAIN obs[r]["SITE"] :
          obs[r]["SITE"][i] # TDZ /\ Positive(obs[r]["SITE"][i][1])
C1_Witness == SITE # TDZ /\ SomeRead("SITE") /\ SITE[1].POSTS_PER_PAGE = 3

\* C2: every entry of NAV_LINKS and of SOCIAL_LINKS has a non-empty label and a
\* non-empty href.
C2_LinksNonEmpty ==
  \A l \in AllEntries : l.label # <<>> /\ l.href # <<>>
C2_Witness ==
  /\ NAV_LINKS # TDZ /\ SOCIAL_LINKS # TDZ
  /\ Len(NAV_LINKS[1]) = 4 /\ Len(SOCIAL_LINKS[1]) = 4
  /\ SomeRead("NAV_LINKS") /\ SomeRead("SOCIAL_LINKS")

\* C3 as stated: the href of every Link is a relative path or an absolute URL.
C3_TargetsPathOrUrl ==
  \A l \in AllEntries : IsRelativePath(l.href) \/ IsAbsoluteUrl(l.href)
\* C3 as amended: the href of every Link is a relative path or an absolute URL,
\* except that of the SOCIAL_LINKS entry labelled 'Email', which is a bare e-mail
\* address; no entry holds any other kind of string.
C3_TargetsPathUrlOrAddress ==
  /\ \A l \in MenuEntries(NAV_LINKS) :
       IsRelativePath(l.href) \/ IsAbsoluteUrl(l.href)
  /\ \A l \in MenuEntries(SOCIAL_LINKS) :
       IF l.label = EmailLabel
       THEN IsEmailAddress(l.href)
       ELSE IsRelativePath(l.href) \/ IsAbsoluteUrl(l.href)
C3_Witness ==
  /\ pc = "ready"
  /\ \E l \in MenuEntries(SOCIAL_LINKS) : l.label = EmailLabel /\ IsEmailAddress(l.href)
  /\ \E l \in MenuEntries(SOCIAL_LINKS) : IsAbsoluteUrl(l.href)
  /\ \E l \in MenuEntries(NAV_LINKS) : IsRelativePath(l.href)

\* C4: a binding never changes once it is initialised, and a consumer that has
\* read an export twice has read the same value both times.
C4_NoMutation ==
  [][ /\ \A e \in Exports : Binding(e) # TDZ => Binding(e)' = Binding(e)
      /\ \A r \in Readers, e \in Exports :
           Len(obs'[r][e]) = 2 => obs'[r][e][1] = obs'[r][e][2] ]_vars
C4_Witness ==
  \E r \in Readers : \A e \in Exports : Len(obs[r][e]) = 2 /\ obs[r][e][2] = Binding(e)

\* C5: the module is never rejected, no literal of it fails to scan, no import
\* of it fails, and SITE, once bound, carries exactly the six fields of Site,
\* strings where Site says string and numbers where it says number.
C5_AlwaysWellFormed ==
  /\ pc # "rejected"
  /\ diagnostics = {}
  /\ \A r \in Readers : status[r] # "error"
  /\ SITE # TDZ =>
       /\ DOMAIN SITE[1] = SiteFields
       /\ \A f \in {"TITLE", "DESCRIPTION", "EMAIL", "SITEURL"} : String(SITE[1][f])
       /\ SITE[1].NUM_POSTS_ON_HOMEPAGE \in Int
       /\ SITE[1].POSTS_PER_PAGE \in Int

\* C6: SITE.SITEURL is an absolute URL: a scheme, a non-empty host and a path
\* that is empty or starts with "/".
C6_SiteUrlAbsolute ==
  /\ SITE # TDZ => IsAbsoluteUrl(SITE[1].SITEURL)
  /\ \A r \in Readers : \A i \in DOMAIN obs[r]["SITE"] :
       obs[r]["SITE"][i] # TDZ /\ IsAbsoluteUrl(obs[r]["SITE"][i][1].SITEURL)
C6_Witness ==
  /\ SomeRead("SITE")
  /\ ParseUrl(SITE[1].SITEURL).scheme = <<"h", "t", "t", "p", "s">>
  /\ ParseUrl(SITE[1].SITEURL).path = <<"/", "b", "l", "o", "g", "/">>

\* C9: in every interleaving of the consumers' reads, every value any consumer
\* has read of an export is the value every other consumer has read of it and
\* the value the export holds (nothing has written it in between), and once the
\* module is evaluated every consumer can take its next step: import it, or
\* read any export.
C9_ReadersAgree ==
  /\ \A r1 \in Readers, r2 \in Readers, e \in Exports :
       \A i \in DOMAIN obs[r1][e], j \in DOMAIN obs[r2][e] :
         obs[r1][e][i] = obs[r2][e][j] /\ obs[r1][e][i] = Binding(e)
  /\ pc = "ready" =>
       \A r \in Readers, e \in Exports : ENABLED (ImportOk(r) \/ Read(r, e))
C9_Witness ==
  /\ \A r \in Readers : \A e \in Exports : obs[r][e] # <<>>
  /\ \E r \in Readers : Len(obs[r]["NAV_LINKS"]) = 1 /\ Len(obs[r]["SITE"]) = 2

\* C10: a consumer holds the module, or a value read from it, only after the
\* evaluation of all three declarations has completed, and no value read is an
\* uninitialised binding.
C10_InitBeforeRead ==
  \A r \in Readers :
    /\ (status[r] = "bound" \/ \E e \in Exports : obs[r][e] # <<>>) =>
         /\ pc = "ready"
         /\ \A e \in Exports : Binding(e) # TDZ
    /\ \A e \in Exports : \A i \in DOMAIN obs[r][e] : obs[r][e][i] # TDZ
C10_Witness ==
  /\ pc = "ready"
  /\ \E r \in Readers : status[r] = "bound" /\ obs[r]["SOCIAL_LINKS"] = <<SOCIAL_LINKS>>
  /\ \E r \in Readers : status[r] = "idle"

(***************************************************************************)
(* The article document src/content/blog/hackers-guide-to-llm-rag-part1/   *)
(* index.mdx, line by line.  A line is a fence (`---`), a field            *)
(* (`key: value`, the value as written) or any other text.  A character    *)
(* outside ASCII is written as the name of its code point.                 *)
(***************************************************************************)
\* index.mdx:2   title: A Hacker?s Guide to Local LLMs and RAG
TitleLine ==
  [kind |-> "field", key |-> "title", raw |->
   [style |-> "plain", text |->
     <<"A"," ","H","a","c","k","e","r","U+2019","s"," ","G","u","i","d","e"," ","t","o"," ","L","o","c","a","l"," ","L","L","M","s"," ","a","n","d"," ","R","A","G">>]]
\* index.mdx:3   description:  Exploring the power of combining local language models with retrieval augmented generation for hackers.
DescriptionLine ==
  [kind |-> "field", key |-> "description", raw |->
   [style |-> "plain", text |->
     <<"E","x","p","l","o","r","i","n","g"," ","t","h","e"," ","p","o","w","e","r"," ","o","f"," ","c","o","m","b","i","n","i","n","g"," ","l","o","c","a","l"," ","l","a","n","g","u","a","g","e"," ","m","o","d","e","l","s"," ","w","i","t","h"," ","r","e","t","r","i","e","v","a","l"," ","a","u","g","m","e","n","t","e","d"," ","g","e","n","e","r","a","t","i","o","n"," ","f","o","r"," ","h","a","c","k","e","r","s",".">>]]
\* index.mdx:4   date: 2024-01-01
DateLine ==
  [kind |-> "field", key |-> "date", raw |->
   [style |-> "plain", text |->
     <<"2","0","2","4","-","0","1","-","0","1">>]]
\* index.mdx:5   tags: ['LLM', 'RAG', 'Cybersecurity', 'AI', 'Machine Learning']
TagsLine ==
  [kind |-> "field", key |-> "tags", raw |->
   [style |-> "flow", items |-> <<
     <<"'","L","L","M","'">>,
     <<"'","R","A","G","'">>,
     <<"'","C","y","b","e","r","s","e","c","u","r","i","t","y","'">>,
     <<"'","A","I","'">>,
     <<"'","M","a","c","h","i","n","e"," ","L","e","a","r","n","i","n","g","'">> >>]]
\* index.mdx:6   image: './1200x630.png'
ImageLine ==
  [kind |-> "field", key |-> "image", raw |->
   [style |-> "quoted", text |->
     <<"'",".","/","1","2","0","0","x","6","3","0",".","p","n","g","'">>]]
\* an authors field with no author
AuthorsLine_empty ==
  [kind |-> "field", key |-> "authors", raw |->
   [style |-> "flow", items |-> << >>]]
\* index.mdx:7   authors: ['strf0x']
AuthorsLine ==
  [kind |-> "field", key |-> "authors", raw |->
   [style |-> "flow", items |-> <<
     <<"'","s","t","r","f","0","x","'">> >>]]
\* index.mdx:219   title: Local LLM's and RAG for Cybersecurity Researchers
SecondTitleLine ==
  [kind |-> "field", key |-> "title", raw |->
   [style |-> "plain", text |->
     <<"L","o","c","a","l"," ","L","L","M","'","s"," ","a","n","d"," ","R","A","G"," ","f","o","r"," ","C","y","b","e","r","s","e","c","u","r","i","t","y"," ","R","e","s","e","a","r","c","h","e","r","s">>]]
\* index.mdx:220   description:  Exploring the power of combining local large language models with retrieval augmented generation for cybersecurity researchers.
SecondDescriptionLine ==
  [kind |-> "field", key |-> "description", raw |->
   [style |-> "plain", text |->
     <<"E","x","p","l","o","r","i","n","g"," ","t","h","e"," ","p","o","w","e","r"," ","o","f"," ","c","o","m","b","i","n","i","n","g"," ","l","o","c","a","l"," ","l","a","r","g","e"," ","l","a","n","g","u","a","g","e"," ","m","o","d","e","l","s"," ","w","i","t","h"," ","r","e","t","r","i","e","v","a","l"," ","a","u","g","m","e","n","t","e","d"," ","g","e","n","e","r","a","t","i","o","n"," ","f","o","r"," ","c","y","b","e","r","s","e","c","u","r","i","t","y"," ","r","e","s","e","a","r","c","h","e","r","s",".">>]]
\* index.mdx:221   date: 2024-10-25
SecondDateLine ==
  [kind |-> "field", key |-> "date", raw |->
   [style |-> "plain", text |->
     <<"2","0","2","4","-","1","0","-","2","5">>]]
\* index.mdx:222   tags: ['LLM', 'RAG', 'Cybersecurity', 'AI', 'Machine Learning']
SecondTagsLine ==
  [kind |-> "field", key |-> "tags", raw |->
   [style |-> "flow", items |-> <<
     <<"'","L","L","M","'">>,
     <<"'","R","A","G","'">>,
     <<"'","C","y","b","e","r","s","e","c","u","r","i","t","y","'">>,
     <<"'","A","I","'">>,
     <<"'","M","a","c","h","i","n","e"," ","L","e","a","r","n","i","n","g","'">> >>]]
\* index.mdx:223   image: './1200x630.png'
SecondImageLine ==
  [kind |-> "field", key |-> "image", raw |->
   [style |-> "quoted", text |->
     <<"'",".","/","1","2","0","0","x","6","3","0",".","p","n","g","'">>]]
\* index.mdx:224   authors: ['strf0x']
SecondAuthorsLine ==
  [kind |-> "field", key |-> "authors", raw |->
   [style |-> "flow", items |-> <<
     <<"'","s","t","r","f","0","x","'">> >>]]

NumLines == 439

Document ==
  [i \in 1..NumLines |->
     CASE i \in {1, 8, 218, 225} -> [kind |-> "fence"]
       [] i = 2 -> TitleLine
       [] i = 3 -> DescriptionLine
       [] i = 4 -> DateLine
       [] i = 5 -> TagsLine
       [] i = 6 -> ImageLine
       [] i = 7 -> AuthorsLine
       [] i = 219 -> SecondTitleLine
       [] i = 220 -> SecondDescriptionLine
       [] i = 221 -> SecondDateLine
       [] i = 222 -> SecondTagsLine
       [] i = 223 -> SecondImageLine
       [] i = 224 -> SecondAuthorsLine
       [] OTHER -> [kind |-> "text"]]

(***************************************************************************)
(* The value of a front-matter field.  A plain scalar of the form          *)
(* YYYY-MM-DD with a month and a day in range is a date, any other plain   *)
(* or quoted scalar a string, a flow sequence the sequence of its items.   *)
(***************************************************************************)
DigitValue(c) == CHOOSE n \in 0..9 : <<"0","1","2","3","4","5","6","7","8","9">>[n + 1] = c

Number(t) == IF Len(t) = 2 THEN 10 * DigitValue(t[1]) + DigitValue(t[2])
             ELSE 1000 * DigitValue(t[1]) + 100 * DigitValue(t[2])
                  + 10 * DigitValue(t[3]) + DigitValue(t[4])

IsDateText(t) ==
  /\ Len(t) = 10
  /\ t[5] = "-" /\ t[8] = "-"
  /\ \A i \in {1, 2, 3, 4, 6, 7, 9, 10} : t[i] \in Digit
  /\ Number(SubSeq(t, 6, 7)) \in 1..12
  /\ Number(SubSeq(t, 9, 10)) \in 1..31

YamlValue(raw) ==
  CASE raw.style = "plain" ->
         IF IsDateText(raw.text)
         THEN [type |-> "date",
               year |-> Number(SubSeq(raw.text, 1, 4)),
               month |-> Number(SubSeq(raw.text, 6, 7)),
               day |-> Number(SubSeq(raw.text, 9, 10))]
         ELSE [type |-> "string", chars |-> raw.text]
    [] raw.style = "quoted" ->
         [type |-> "string", chars |-> ScanString(raw.text).value]
    [] raw.style = "flow" ->
         [type |-> "sequence",
          items |-> [i \in 1..Len(raw.items) |-> ScanString(raw.items[i]).value]]

Fences(doc) == {i \in DOMAIN doc : doc[i].kind = "fence"}

\* The fields between two lines of a document: each key with the value of the
\* last line that gives it.
BlockData(doc, open, close) ==
  LET fieldLines == {i \in (open + 1)..(close - 1) : doc[i].kind = "field"}
      keys == {doc[i].key : i \in fieldLines}
      lineOf(k) == CHOOSE i \in fieldLines :
                     /\ doc[i].key = k
                     /\ \A j \in fieldLines : doc[j].key = k => j <= i
  IN [k \in keys |-> YamlValue(doc[lineOf(k)].raw)]

\* The fenced blocks of a document: its fences paired in order, the first with
\* the second, the third with the fourth.
FencedBlocks(doc) ==
  LET rank(i) == Cardinality({j \in Fences(doc) : j <= i})
  IN {<<a, b>> \in Fences(doc) \X Fences(doc) :
        rank(a) % 2 = 1 /\ rank(b) = rank(a) + 1}

\* The front-matter of a document: the block that its first line opens, up to
\* the next fence.  The body is what follows it.
FrontMatter(doc) ==
  LET closing == {i \in Fences(doc) : i > 1}
  IN IF Len(doc) = 0 \/ doc[1].kind # "fence" \/ closing = {}
     THEN [present |-> FALSE, data |-> << >>, body |-> 1]
     ELSE LET close == CHOOSE i \in closing : \A j \in closing : i <= j
          IN [present |-> TRUE, data |-> BlockData(doc, 1, close), body |-> close + 1]

\* The front-matter and the fenced blocks of index.mdx.
ArticleFrontMatter == FrontMatter(Document)
ArticleBlocks == FencedBlocks(Document)
ArticleBlockData == {BlockData(Document, b[1], b[2]) : b \in ArticleBlocks}

(***************************************************************************)
(* The content collection and the renderer's pagination.  The collection   *)
(* holds index.mdx and up to MaxArticles - 1 further articles, of which    *)
(* only the date matters here.                                             *)
(***************************************************************************)
OtherDates == {[type |-> "date", year |-> 2024, month |-> 1, day |-> d] : d \in 1..NumDates}

LoadArticle ==
  /\ ~rendered
  /\ posts = <<>>
  /\ posts' = <<[id |-> 1, source |-> "index.mdx", data |-> ArticleFrontMatter.data]>>
  /\ UNCHANGED <<pc, SITE, NAV_LINKS, SOCIAL_LINKS, diagnostics, status, obs, pages, rendered>>

LoadOther(date) ==
  /\ ~rendered
  /\ posts # <<>>
  /\ Len(posts) < MaxArticles
  /\ posts' = Append(posts, [id |-> Len(posts) + 1, source |-> "other",
                             data |-> [date |-> date]])
  /\ UNCHANGED <<pc, SITE, NAV_LINKS, SOCIAL_LINKS, diagnostics, status, obs, pages, rendered>>

DateLE(a, b) ==
  \/ a.year < b.year
  \/ a.year = b.year /\ a.month < b.month
  \/ a.year = b.year /\ a.month = b.month /\ a.day <= b.day

\* Insertion of an entry into a sequence in date order, after the entries of
\* the same date.
RECURSIVE InsertByDate(_, _)
InsertByDate(sorted, entry) ==
  IF sorted = <<>> THEN <<entry>>
  ELSE IF DateLE(Head(sorted).data.date, entry.data.date)
       THEN <<Head(sorted)>> \o InsertByDate(Tail(sorted), entry)
       ELSE <<entry>> \o sorted

RECURSIVE SortByDate(_)
SortByDate(entries) ==
  IF entries = <<>> THEN <<>>
  ELSE InsertByDate(SortByDate(SubSeq(entries, 1, Len(entries) - 1)),
                    entries[Len(entries)])

RECURSIVE Chunk(_, _)
Chunk(entries, size) ==
  IF Len(entries) <= size
  THEN IF entries = <<>> THEN <<>> ELSE <<entries>>
  ELSE <<SubSeq(entries, 1, size)>> \o Chunk(SubSeq(entries, size + 1, Len(entries)), size)

Paginate ==
  /\ ModuleEvaluated
  /\ ~rendered
  /\ pages' = Chunk(SortByDate(posts), SITE[1].POSTS_PER_PAGE)
  /\ rendered' = TRUE
  /\ UNCHANGED <<pc, SITE, NAV_LINKS, SOCIAL_LINKS, diagnostics, status, obs, posts>>

NextContent ==
  \/ Reject
  \/ EvalSITE
  \/ EvalNAV_LINKS
  \/ EvalSOCIAL_LINKS
  \/ LoadArticle
  \/ \E d \in OtherDates : LoadOther(d)
  \/ Paginate

SpecContent == Init /\ [][NextContent]_vars

(***************************************************************************)
(* Claims about the article documents and the pagination.                  *)
(***************************************************************************)
RequiredFields == {"title", "description", "date", "tags", "image", "authors"}

ConformsToSchema(data) ==
  /\ RequiredFields \subseteq DOMAIN data
  /\ data.title.type = "string"
  /\ data.description.type = "string"
  /\ data.date.type = "date"
  /\ data.tags.type = "sequence"
  /\ Len(data.tags.items) >= 1
  /\ \A i \in 1..Len(data.tags.items) : String(data.tags.items[i])
  /\ data.image.type = "string"
  /\ IsRelativePath(data.image.chars)
  /\ data.authors.type = "sequence"
  /\ Len(data.authors.items) >= 1
  /\ \A i \in 1..Len(data.authors.items) : String(data.authors.items[i])

\* C7: the front-matter of every article document loaded into the collection,
\* and every fenced metadata block of the document, has the six required
\* fields: title and description strings, date a date, image a relative path,
\* tags and authors non-empty sequences of strings.
C7_FrontMatterComplete ==
  \A i \in 1..Len(posts) :
    posts[i].source = "index.mdx" =>
      /\ ArticleFrontMatter.present
      /\ ConformsToSchema(posts[i].data)
      /\ \A data \in ArticleBlockData : ConformsToSchema(data)
C7_Witness ==
  /\ posts # <<>>
  /\ posts[1].source = "index.mdx"
  /\ posts[1].data.date = [type |-> "date", year |-> 2024, month |-> 1, day |-> 1]
  /\ Len(posts[1].data.tags.items) = 5
  /\ ArticleBlocks = {<<1, 8>>, <<218, 225>>}

RECURSIVE Flatten(_)
Flatten(pp) == IF pp = <<>> THEN <<>> ELSE Head(pp) \o Flatten(Tail(pp))

PageSizes == [p \in 1..Len(pages) |-> Len(pages[p])]

\* C8: once the renderer has paginated, the pages in order hold the articles in
\* publication-date order; every page but the last holds POSTS_PER_PAGE articles
\* and the last between 1 and POSTS_PER_PAGE; every article is on exactly one
\* page; and 7 articles make pages of sizes 3, 3, 1.
C8_PaginationPartitions ==
  rendered =>
    LET flat == Flatten(pages)
        size == SITE[1].POSTS_PER_PAGE
    IN /\ Len(flat) = Len(posts)
       /\ \A i \in 1..Len(flat), j \in 1..Len(flat) :
            i < j => DateLE(flat[i].data.date, flat[j].data.date)
       /\ \A p \in 1..Len(pages) :
            IF p < Len(pages) THEN Len(pages[p]) = size
            ELSE Len(pages[p]) \in 1..size
       /\ \A i \in 1..Len(posts) :
            Cardinality({<<p, k>> \in (1..Len(pages)) \X (1..Len(posts)) :
                           k <= Len(pages[p]) /\ pages[p][k].id = posts[i].id}) = 1
       /\ Len(posts) = 7 => PageSizes = <<3, 3, 1>>
C8_Witness ==
  /\ rendered
  /\ Len(posts) = 7
  /\ PageSizes = <<3, 3, 1>>
  /\ SortByDate(posts) # posts
  /\ pages[3][1].id = 5

(***************************************************************************)
(* Claims about the shape and the consistency of the configuration, and    *)
(* about the place of the front-matter in a document.                      *)
(***************************************************************************)
Labels(menu) == [i \in 1..Len(menu) |-> menu[i].label]
Hrefs(menu) == [i \in 1..Len(menu) |-> menu[i].href]

NavDisplayOrder ==
  << <<"b","l","o","g">>, <<"a","u","t","h","o","r","s">>,
     <<"a","b","o","u","t">>, <<"t","a","g","s">> >>
SocialDisplayOrder ==
  << <<"G","i","t","H","u","b">>, <<"T","w","i","t","t","e","r">>,
     <<"E","m","a","i","l">>, <<"R","S","S">> >>

\* C11: the module exports one SITE record and two menus; each binding holds at
\* most one value, and every consumer that read SITE read that one record.  A
\* menu, once bound, is a non-empty sequence whose labels are, in order, blog,
\* authors, about, tags (NAV_LINKS) and GitHub, Twitter, Email, RSS
\* (SOCIAL_LINKS), and every read of a menu returned its entries in that order.
C11_OneSiteTwoOrderedMenus ==
  /\ Exports = {"SITE", "NAV_LINKS", "SOCIAL_LINKS"}
  /\ \A e \in Exports : Len(Binding(e)) <= 1
  /\ \A r \in Readers : \A i \in DOMAIN obs[r]["SITE"] : obs[r]["SITE"][i] = SITE
  /\ NAV_LINKS # TDZ =>
       Len(NAV_LINKS[1]) >= 1 /\ Labels(NAV_LINKS[1]) = NavDisplayOrder
  /\ SOCIAL_LINKS # TDZ =>
       Len(SOCIAL_LINKS[1]) >= 1 /\ Labels(SOCIAL_LINKS[1]) = SocialDisplayOrder
  /\ \A r \in Readers :
       /\ \A i \in DOMAIN obs[r]["NAV_LINKS"] :
            /\ obs[r]["NAV_LINKS"][i] # TDZ
            /\ Labels(obs[r]["NAV_LINKS"][i][1]) = NavDisplayOrder
       /\ \A i \in DOMAIN obs[r]["SOCIAL_LINKS"] :
            /\ obs[r]["SOCIAL_LINKS"][i] # TDZ
            /\ Labels(obs[r]["SOCIAL_LINKS"][i][1]) = SocialDisplayOrder
C11_Witness ==
  /\ SITE # TDZ
  /\ \E r \in Readers :
       /\ Len(obs[r]["NAV_LINKS"]) = 2
       /\ Len(obs[r]["SOCIAL_LINKS"]) = 2
       /\ obs[r]["NAV_LINKS"][2][1][1].label = <<"b","l","o","g">>
       /\ obs[r]["SOCIAL_LINKS"][2][1][4].label = <<"R","S","S">>

\* C12: every article document loaded into the collection has front-matter at
\* its head and exactly one fenced metadata block, the one that its first line
\* opens; no fenced block lies in the body.
C12_SingleFrontMatterAtHead ==
  \A i \in 1..Len(posts) :
    posts[i].source = "index.mdx" =>
      /\ ArticleFrontMatter.present
      /\ ArticleBlocks = {<<1, ArticleFrontMatter.body - 1>>}
      /\ \A b \in ArticleBlocks : b[1] < ArticleFrontMatter.body

\* The address a target denotes: the target without a leading "mailto:".
Mailto == <<"m","a","i","l","t","o",":">>
AddressOf(target) ==
  IF StartsWith(target, Mailto)
  THEN SubSeq(target, Len(Mailto) + 1, Len(target))
  ELSE target

Distinct(seq) == \A i \in 1..Len(seq), j \in 1..Len(seq) : i # j => seq[i] # seq[j]

\* C13: once SITE and SOCIAL_LINKS are bound, SOCIAL_LINKS has an entry labelled
\* 'Email' and the target of every such entry denotes the address SITE.EMAIL;
\* and within each bound menu no two entries have the same label and no two
\* the same href.
C13_ConsistentAcrossParts ==
  /\ (SITE # TDZ /\ SOCIAL_LINKS # TDZ) =>
       /\ \E l \in MenuEntries(SOCIAL_LINKS) : l.label = EmailLabel
       /\ \A l \in MenuEntries(SOCIAL_LINKS) :
            l.label = EmailLabel =>
              /\ IsEmailAddress(AddressOf(l.href))
              /\ AddressOf(l.href) = SITE[1].EMAIL
  /\ \A e \in {"NAV_LINKS", "SOCIAL_LINKS"} :
       Binding(e) # TDZ =>
         Distinct(Labels(Binding(e)[1])) /\ Distinct(Hrefs(Binding(e)[1]))
C13_Witness ==
  /\ pc = "ready"
  /\ SOCIAL_LINKS[1][3].label = EmailLabel
  /\ SOCIAL_LINKS[1][3].href = SITE[1].EMAIL
  /\ Len(SITE[1].EMAIL) = 22
  /\ \E r \in Readers : obs[r]["SITE"] # <<>> /\ obs[r]["SOCIAL_LINKS"] # <<>>

=============================================================================
